---- MODULE Spec2Model ----
(***************************************************************************)
(* Brixsport analytics service: brixsport-backend/apps/analytics/main.py.  *)
(*                                                                         *)
(* The module is loaded top to bottom (line 3 builds the FastAPI           *)
(* application, lines 9 and 13 register the two GET routes, line 17 tests  *)
(* __name__ and line 19 hands the application to uvicorn.run).  A listening *)
(* process takes requests on its connections; each request is routed over  *)
(* the application's route table in registration order and answered.       *)
(*                                                                         *)
(* A path is a sequence of tokens: "/" , "\n" and path words, so that       *)
(* matching, stripping and appending work on the path's characters.        *)
(* A JSON body is the sequence of tokens of its compact rendering.          *)
(***************************************************************************)
EXTENDS Integers, Sequences, FiniteSets, TLC

VARIABLES
    pc,              \* position of the process: off, L3, L9, L13, L17, L19, listening, imported, exited
    name,            \* __name__ of the module in this process
    boots,           \* number of processes started so far
    routes,          \* app.router.routes, in registration order
    openapi_schema,  \* app.openapi_schema, the cached schema (None until first built)
    sock,            \* the listening socket: NoSock or [host, port]
    bindResult,      \* outcome of the bind attempted by uvicorn.run in this process
    exitCode,        \* {} while the process runs, then the set holding its exit status
    conn,            \* per connection: idle, a pending request, or a request with its response
    ref              \* an exchange a client kept: NoRef or [boot, req, status, body]

vars == <<pc, name, boots, routes, openapi_schema, sock, bindResult, exitCode, conn, ref>>

\* State of the application object and the server that outlives one request.
appState == <<pc, name, boots, routes, openapi_schema, sock, bindResult, exitCode>>

-----------------------------------------------------------------------------
\* Bounds and input sets

\* Processes started in one behaviour.
MaxBoots == 2

Conns1 == {"c1"}
Conns2 == {"c1", "c2"}

Methods == {"GET", "POST", "HEAD"}

Paths ==
    { <<"/">>,
      <<"/", "health">>,
      <<"/", "health", "/">>,
      <<"/", "health", "\n">>,
      <<"/", "\n">>,
      <<"/", "/">>,
      <<"/", "unknown">>,
      <<"/", "docs">>,
      <<"/", "docs", "/">>,
      <<"/", "docs", "/", "oauth2-redirect">>,
      <<"/", "openapi.json">> }

\* What else a request carries: query string, a header, a body.
Extras ==
    { [query |-> "",        header |-> "",           body |-> ""],
      [query |-> "debug=1", header |-> "",           body |-> ""],
      [query |-> "",        header |-> "X-Probe: 1", body |-> ""],
      [query |-> "",        header |-> "",           body |-> "{}"] }

Requests ==
    { [method |-> m, path |-> p, query |-> e.query, header |-> e.header, body |-> e.body] :
        m \in Methods, p \in Paths, e \in Extras }

\* The requests of the two-connection specification.
ConcRequests ==
    { r \in Requests :
        /\ r.method \in {"GET", "POST"}
        /\ r.path \in { <<"/">>, <<"/", "health">>, <<"/", "openapi.json">> }
        /\ r.query = "" /\ r.header = "" /\ r.body = "" }

NoSock == [host |-> "", port |-> 0]
NoReq == [method |-> "", path |-> <<>>, query |-> "", header |-> "", body |-> ""]
NoRef == [boot |-> 0, req |-> NoReq, status |-> 0, body |-> <<>>]
Idle == [stage |-> "idle"]

-----------------------------------------------------------------------------
\* main.py line 19: uvicorn.run(app, host="0.0.0.0", port=8000)

Host == "0.0.0.0"
Port == 8000

-----------------------------------------------------------------------------
\* Handlers (lines 9-15).  A handler returns a dict, here its items in order.

\* A handler that answers differently once the schema cache is warm.
root_warm ==
    IF openapi_schema = "built"
    THEN << <<"message", "Brixsport Analytics Service (warm)">> >>
    ELSE << <<"message", "Brixsport Analytics Service">> >>

\* A handler that reports which start of the process it runs in.
root_persist ==
    IF boots > 1
    THEN << <<"message", "Brixsport Analytics Service">>, <<"restarted", "yes">> >>
    ELSE << <<"message", "Brixsport Analytics Service">> >>

root == << <<"message", "Brixsport Analytics Service">> >>

\* A handler that reports lower case.
health_check_lower == << <<"status", "ok">> >>

\* A handler that looks at the other connections while it runs.
health_check_busy ==
    IF \E c \in DOMAIN conn : conn[c].stage = "responded"
    THEN << <<"status", "BUSY">> >>
    ELSE << <<"status", "OK">> >>

health_check == << <<"status", "OK">> >>

-----------------------------------------------------------------------------
\* JSON rendering of a handler's dict (JSONResponse: compact separators).

RECURSIVE RenderItems(_)
RenderItems(items) ==
    IF items = <<>> THEN <<>>
    ELSE LET kv == Head(items)
             one == <<"\"", kv[1], "\"", ":", "\"", kv[2], "\"">>
         IN  IF Len(items) = 1 THEN one
             ELSE one \o <<",">> \o RenderItems(Tail(items))

Render(items) == <<"{">> \o RenderItems(items) \o <<"}">>

-----------------------------------------------------------------------------
\* The route table.  FastAPI(...) on lines 3-7 leaves openapi_url, docs_url
\* and redoc_url at their defaults, so the constructor registers the schema
\* and documentation routes before any route of the module.

DocsRoutes ==
    << [path |-> <<"/", "openapi.json">>,             methods |-> {"GET", "HEAD"}, endpoint |-> "openapi"],
       [path |-> <<"/", "docs">>,                     methods |-> {"GET", "HEAD"}, endpoint |-> "swagger_ui_html"],
       [path |-> <<"/", "docs", "/", "oauth2-redirect">>, methods |-> {"GET", "HEAD"}, endpoint |-> "swagger_ui_redirect"],
       [path |-> <<"/", "redoc">>,                    methods |-> {"GET", "HEAD"}, endpoint |-> "redoc_html"] >>

\* A route registered for every method the model sends.
RootRoute_AnyMethod == [path |-> <<"/">>, methods |-> {"GET", "POST", "HEAD"}, endpoint |-> "root"]

\* @app.get("/")
RootRoute == [path |-> <<"/">>, methods |-> {"GET"}, endpoint |-> "root"]

\* @app.get("/health")
HealthRoute == [path |-> <<"/", "health">>, methods |-> {"GET"}, endpoint |-> "health_check"]

-----------------------------------------------------------------------------
\* Routing of one request over the table (the router the application of
\* line 3 dispatches with).

IsPrefix(s, t) == Len(s) <= Len(t) /\ SubSeq(t, 1, Len(s)) = s

\* A match that accepts any path the pattern starts.
PathMatch_Prefix(pattern, path) == IsPrefix(pattern, path)

\* The pattern is compiled to ^pattern$, and $ also matches before a final
\* newline.
PathMatch(pattern, path) == path = pattern \/ path = pattern \o <<"\n">>

Match(route, method, path) ==
    IF ~PathMatch(route.path, path) THEN "NONE"
    ELSE IF method \in route.methods THEN "FULL"
    ELSE "PARTIAL"

\* Index of the first route of rs with the given match, 0 when there is none.
FirstMatch(rs, kind, method, path) ==
    LET hits == { i \in 1..Len(rs) : Match(rs[i], method, path) = kind }
    IN  IF hits = {} THEN 0
        ELSE CHOOSE i \in hits : \A j \in hits : i <= j

RECURSIVE RStripSlash(_)
RStripSlash(path) ==
    IF path # <<>> /\ path[Len(path)] = "/"
    THEN RStripSlash(SubSeq(path, 1, Len(path) - 1))
    ELSE path

\* The path the router tries when nothing matched: trailing slashes
\* stripped, or one appended.
SlashToggled(path) ==
    IF path[Len(path)] = "/" THEN RStripSlash(path) ELSE Append(path, "/")

RedirectsSlash(rs, method, path) ==
    /\ path # <<"/">>
    /\ \E i \in 1..Len(rs) : Match(rs[i], method, SlashToggled(path)) # "NONE"

\* What running an endpoint returns: status, body, the endpoint that ran.
CallEndpoint(endpoint) ==
    CASE endpoint = "root" ->
            [status |-> 200, body |-> Render(root), ran |-> "root"]
      [] endpoint = "health_check" ->
            [status |-> 200, body |-> Render(health_check), ran |-> "health_check"]
      [] endpoint = "openapi" ->
            [status |-> 200, body |-> <<"{", "openapi-schema", "}">>, ran |-> "openapi"]
      [] OTHER ->
            [status |-> 200, body |-> <<"<html>", endpoint, "</html>">>, ran |-> endpoint]

\* The router's answer for a method and a path.
Dispatch(rs, method, path) ==
    LET full    == FirstMatch(rs, "FULL", method, path)
        partial == FirstMatch(rs, "PARTIAL", method, path)
    IN  IF full # 0 THEN CallEndpoint(rs[full].endpoint)
        ELSE IF partial # 0 THEN
            [status |-> 405, body |-> Render(<< <<"detail", "Method Not Allowed">> >>), ran |-> "none"]
        ELSE IF RedirectsSlash(rs, method, path) THEN
            [status |-> 307, body |-> <<>>, ran |-> "none"]
        ELSE
            [status |-> 404, body |-> Render(<< <<"detail", "Not Found">> >>), ran |-> "none"]

\* An application whose answer repeats the query string it was sent.
Respond_EchoQuery(rs, r) ==
    LET d == Dispatch(rs, r.method, r.path)
    IN  IF r.query = "" THEN d ELSE [d EXCEPT !.body = d.body \o <<r.query>>]

\* The response of the application to request r.  root() and health_check()
\* declare no parameters, so nothing of the request but its method and path
\* (which chose the route) reaches the answer.
Respond(rs, r) == Dispatch(rs, r.method, r.path)

-----------------------------------------------------------------------------
\* The process: module load (lines 1-17), then uvicorn.run (line 19).

Init ==
    /\ pc = "off"
    /\ name = ""
    /\ boots = 0
    /\ routes = <<>>
    /\ openapi_schema = "None"
    /\ sock = NoSock
    /\ bindResult = "none"
    /\ exitCode = {}
    /\ conn = [c \in Conns1 |-> Idle]
    /\ ref = NoRef

ConcInit ==
    /\ pc = "off"
    /\ name = ""
    /\ boots = 0
    /\ routes = <<>>
    /\ openapi_schema = "None"
    /\ sock = NoSock
    /\ bindResult = "none"
    /\ exitCode = {}
    /\ conn = [c \in Conns2 |-> Idle]
    /\ ref = NoRef

\* A new process loads the module, run as a script ("__main__") or imported
\* under its module name.  Nothing of an earlier process is kept.
Start(mode) ==
    /\ pc \in {"off", "exited", "imported"}
    /\ boots < MaxBoots
    /\ pc' = "L3"
    /\ name' = mode
    /\ boots' = boots + 1
    /\ routes' = <<>>
    /\ openapi_schema' = "None"
    /\ sock' = NoSock
    /\ bindResult' = "none"
    /\ exitCode' = {}
    /\ conn' = [c \in DOMAIN conn |-> Idle]
    /\ UNCHANGED ref

\* Lines 3-7: app = FastAPI(title=..., description=..., version=...)
CreateApp ==
    /\ pc = "L3"
    /\ routes' = DocsRoutes
    /\ pc' = "L9"
    /\ UNCHANGED <<name, boots, openapi_schema, sock, bindResult, exitCode, conn, ref>>

\* Lines 9-11: @app.get("/") on root
RegisterRoot ==
    /\ pc = "L9"
    /\ routes' = Append(routes, RootRoute)
    /\ pc' = "L13"
    /\ UNCHANGED <<name, boots, openapi_schema, sock, bindResult, exitCode, conn, ref>>

\* Lines 13-15: @app.get("/health") on health_check
RegisterHealth ==
    /\ pc = "L13"
    /\ routes' = Append(routes, HealthRoute)
    /\ pc' = "L17"
    /\ UNCHANGED <<name, boots, openapi_schema, sock, bindResult, exitCode, conn, ref>>

\* A guard that lets an importing process through.
IsMain_Always == TRUE

\* Line 17: __name__ == "__main__"
IsMain == name = "__main__"

\* Line 17: the module is done when imported, and goes on to line 19 when run.
MainGuard ==
    /\ pc = "L17"
    /\ pc' = IF IsMain THEN "L19" ELSE "imported"
    /\ UNCHANGED <<name, boots, routes, openapi_schema, sock, bindResult, exitCode, conn, ref>>

\* Line 19, the port is free: the server listens on host and port.
BindOk ==
    /\ pc = "L19"
    /\ sock' = [host |-> Host, port |-> Port]
    /\ bindResult' = "ok"
    /\ pc' = "listening"
    /\ UNCHANGED <<name, boots, routes, openapi_schema, exitCode, conn, ref>>

\* A startup that ends quietly when the bind fails.
StartupFailure_Quiet == [pc |-> "exited", exitCode |-> 0]

\* Line 19, the bind raises OSError: nothing in main.py catches the
\* server's exit, so the process ends with the server's startup status.
StartupFailure == [pc |-> "exited", exitCode |-> 1]

BindErrors == {"EADDRINUSE", "EACCES"}

BindFail(err) ==
    /\ pc = "L19"
    /\ bindResult' = err
    /\ pc' = StartupFailure.pc
    /\ exitCode' = {StartupFailure.exitCode}
    /\ UNCHANGED <<name, boots, routes, openapi_schema, sock, conn, ref>>

Signals == {"SIGINT", "SIGTERM"}

\* The exit status after the server has shut down on a signal.  The server
\* leaves with 0, or hands SIGTERM back to the default handler once it has
\* shut down, which ends the process with the signal's status.
ExitAfterSignal(sig) ==
    IF sig = "SIGTERM" THEN {0, 143} ELSE {0}

\* Line 19 returns: the listening server is told to stop.
Shutdown(sig) ==
    /\ pc = "listening"
    /\ pc' = "exited"
    /\ sock' = NoSock
    /\ conn' = [c \in DOMAIN conn |-> Idle]
    /\ \E code \in ExitAfterSignal(sig) : exitCode' = {code}
    /\ UNCHANGED <<name, boots, routes, openapi_schema, bindResult, ref>>

-----------------------------------------------------------------------------
\* Requests of a listening server.

Accept(c, r) ==
    /\ pc = "listening"
    /\ conn[c].stage = "idle"
    /\ conn' = [conn EXCEPT ![c] = [stage |-> "pending", req |-> r]]
    /\ UNCHANGED <<pc, name, boots, routes, openapi_schema, sock, bindResult, exitCode, ref>>

\* The application answers the pending request of connection c.  Only the
\* schema endpoint writes application state: it fills the cache.
Handle(c) ==
    /\ pc = "listening"
    /\ conn[c].stage = "pending"
    /\ LET r    == conn[c].req
           resp == Respond(routes, r)
       IN  /\ conn' = [conn EXCEPT ![c] = [stage |-> "responded", req |-> r, resp |-> resp]]
           /\ openapi_schema' = IF resp.ran = "openapi" THEN "built" ELSE openapi_schema
    /\ UNCHANGED <<pc, name, boots, routes, sock, bindResult, exitCode, ref>>

\* The response leaves; the connection is free again.
Send(c) ==
    /\ pc = "listening"
    /\ conn[c].stage = "responded"
    /\ conn' = [conn EXCEPT ![c] = Idle]
    /\ UNCHANGED <<pc, name, boots, routes, openapi_schema, sock, bindResult, exitCode, ref>>

\* As Send, and the client keeps the exchange to compare later ones with.
SendObserved(c) ==
    /\ pc = "listening"
    /\ conn[c].stage = "responded"
    /\ ref' = [boot |-> boots, req |-> conn[c].req,
               status |-> conn[c].resp.status, body |-> conn[c].resp.body]
    /\ conn' = [conn EXCEPT ![c] = Idle]
    /\ UNCHANGED <<pc, name, boots, routes, openapi_schema, sock, bindResult, exitCode>>

-----------------------------------------------------------------------------
\* Specifications

Next ==
    \/ \E mode \in {"__main__", "main"} : Start(mode)
    \/ CreateApp
    \/ RegisterRoot
    \/ RegisterHealth
    \/ MainGuard
    \/ BindOk
    \/ \E err \in BindErrors : BindFail(err)
    \/ \E sig \in Signals : Shutdown(sig)
    \/ \E c \in Conns1, r \in Requests : Accept(c, r)
    \/ \E c \in Conns1 : Handle(c)
    \/ \E c \in Conns1 : Send(c)
    \/ \E c \in Conns1 : SendObserved(c)

\* One connection, every request of the model.
Spec == Init /\ [][Next]_vars

ConcNext ==
    \/ \E mode \in {"__main__", "main"} : Start(mode)
    \/ CreateApp
    \/ RegisterRoot
    \/ RegisterHealth
    \/ MainGuard
    \/ BindOk
    \/ \E err \in BindErrors : BindFail(err)
    \/ \E sig \in Signals : Shutdown(sig)
    \/ \E c \in Conns2, r \in ConcRequests : Accept(c, r)
    \/ \E c \in Conns2 : Handle(c)
    \/ \E c \in Conns2 : Send(c)
    \/ \E c \in Conns2 : SendObserved(c)

\* Two connections served at once.
ConcSpec == ConcInit /\ [][ConcNext]_vars

-----------------------------------------------------------------------------
\* Properties

RootPath == <<"/">>
HealthPath == <<"/", "health">>

\* {"message":"Brixsport Analytics Service"}
RootJson == <<"{", "\"", "message", "\"", ":", "\"", "Brixsport Analytics Service", "\"", "}">>

\* {"status":"OK"}
HealthJson == <<"{", "\"", "status", "\"", ":", "\"", "OK", "\"", "}">>

Responded(c) == conn[c].stage = "responded"

RespondedTo(c, method, path) ==
    /\ conn[c].stage = "responded"
    /\ conn[c].req.method = method
    /\ conn[c].req.path = path

\* C1: every GET / of a listening service is answered 200 with the body
\* {"message": "Brixsport Analytics Service"}, whatever was served before,
\* and answering it changes nothing of the application or the server.
C1_RootAnswer ==
    [][\A c \in DOMAIN conn :
          ( /\ conn[c].stage = "pending"
            /\ conn[c].req.method = "GET"
            /\ conn[c].req.path = RootPath
            /\ conn'[c].stage = "responded" )
          => ( /\ conn'[c].resp.status = 200
               /\ conn'[c].resp.body = RootJson
               /\ conn'[c].resp.ran = "root"
               /\ UNCHANGED appState )]_vars

\* A GET / answered after the schema cache was filled and after an earlier
\* GET / was answered.
C1_Witness ==
    \E c \in DOMAIN conn :
        /\ RespondedTo(c, "GET", RootPath)
        /\ conn[c].resp.status = 200
        /\ openapi_schema = "built"
        /\ ref.req.method = "GET" /\ ref.req.path = RootPath /\ ref.boot = boots

\* C2: every GET /health of a listening service is answered 200 with the body
\* {"status": "OK"}, whatever was served before.
C2_HealthAnswer ==
    \A c \in DOMAIN conn :
        RespondedTo(c, "GET", HealthPath)
        => conn[c].resp.status = 200 /\ conn[c].resp.body = HealthJson

C2_Witness ==
    \E c \in DOMAIN conn :
        /\ RespondedTo(c, "GET", HealthPath)
        /\ conn[c].resp.status = 200
        /\ ref # NoRef /\ ref.req.path # HealthPath

\* C3 as written: a GET to any path other than / and /health is answered
\* 404 and runs no handler.
C3_Original ==
    \A c \in DOMAIN conn :
        ( /\ Responded(c)
          /\ conn[c].req.method = "GET"
          /\ conn[c].req.path \notin {RootPath, HealthPath} )
        => conn[c].resp.status = 404 /\ conn[c].resp.ran = "none"

\* The paths the application has a route for: the two of main.py and the
\* four the constructor adds.
RegisteredPaths ==
    { <<"/">>, <<"/", "health">>, <<"/", "openapi.json">>, <<"/", "docs">>,
      <<"/", "docs", "/", "oauth2-redirect">>, <<"/", "redoc">> }

NamesRoute(path) ==
    \E p \in RegisteredPaths : path = p \/ path = p \o <<"\n">>

\* C3, amended: a GET to a path that names no registered route runs no
\* handler and is answered 404, or 307 when the path with its trailing
\* slashes stripped, or with one appended, names a route.
C3_UnknownPath ==
    \A c \in DOMAIN conn :
        ( /\ Responded(c)
          /\ conn[c].req.method = "GET"
          /\ ~NamesRoute(conn[c].req.path) )
        => /\ conn[c].resp.ran = "none"
           /\ conn[c].resp.status =
                 IF NamesRoute(SlashToggled(conn[c].req.path)) THEN 307 ELSE 404

C3_Witness ==
    \E c \in DOMAIN conn :
        /\ RespondedTo(c, "GET", <<"/", "unknown">>)
        /\ conn[c].resp.status = 404

\* C4: a method other than GET on / or /health is answered 405, never 200.
C4_WrongMethod ==
    \A c \in DOMAIN conn :
        ( /\ Responded(c)
          /\ conn[c].req.path \in {RootPath, HealthPath}
          /\ conn[c].req.method # "GET" )
        => conn[c].resp.status = 405 /\ conn[c].resp.ran = "none"

C4_Witness ==
    \E c \in DOMAIN conn :
        /\ RespondedTo(c, "POST", RootPath)
        /\ conn[c].resp.status = 405

HealthGet == [method |-> "GET", path |-> HealthPath, query |-> "", header |-> "", body |-> ""]

\* C5: with two connections, a free connection of a listening service takes
\* a GET /health whatever the other connection is doing, and every GET
\* /health is answered 200 {"status": "OK"} under every interleaving, so two
\* answered at once carry the same body.
C5_ConcurrentHealth ==
    \A c \in DOMAIN conn :
        /\ (pc = "listening" /\ conn[c].stage = "idle") => ENABLED Accept(c, HealthGet)
        /\ RespondedTo(c, "GET", HealthPath)
           => /\ conn[c].resp.status = 200
              /\ conn[c].resp.body = HealthJson
              /\ \A d \in DOMAIN conn :
                    RespondedTo(d, "GET", HealthPath) => conn[d].resp = conn[c].resp

\* Both connections hold an answered GET /health at the same time.
C5_Witness ==
    /\ Cardinality(DOMAIN conn) = 2
    /\ \A c \in DOMAIN conn : RespondedTo(c, "GET", HealthPath) /\ conn[c].resp.status = 200

\* C6: the answer to GET / and to GET /health after a restart equals the
\* answer an earlier process gave, whatever that process had served.
C6_SameAfterRestart ==
    \A c \in DOMAIN conn :
        ( /\ Responded(c)
          /\ conn[c].req.method = "GET"
          /\ conn[c].req.path \in {RootPath, HealthPath}
          /\ ref.boot >= 1 /\ ref.boot < boots
          /\ ref.req.method = "GET"
          /\ ref.req.path = conn[c].req.path )
        => ref.status = conn[c].resp.status /\ ref.body = conn[c].resp.body

C6_Witness ==
    \E c \in DOMAIN conn :
        /\ RespondedTo(c, "GET", RootPath)
        /\ ref.boot = 1 /\ boots = 2
        /\ ref.req.method = "GET" /\ ref.req.path = RootPath
        /\ ref.body = RootJson

\* C7: when the bind fails the process is over with a non-zero exit status:
\* it has no listening socket, holds no request and has answered none.
C7_BindFailureFatal ==
    bindResult \in BindErrors
    => /\ pc = "exited"
       /\ exitCode # {} /\ 0 \notin exitCode
       /\ sock = NoSock
       /\ \A c \in DOMAIN conn : conn[c].stage = "idle"
       /\ ref.boot # boots

C7_Witness ==
    /\ bindResult = "EADDRINUSE"
    /\ pc = "exited"
    /\ exitCode = {1}

\* C9: a listener exists only in a process that ran the module as
\* __main__, and it is bound to 0.0.0.0:8000; a process that imported the
\* module has the application with both routes and no listener.
C9_ListenerOnlyAsMain ==
    /\ (pc \in {"L19", "listening"} \/ bindResult # "none" \/ sock # NoSock)
       => name = "__main__"
    /\ pc = "listening" => sock = [host |-> "0.0.0.0", port |-> 8000]
    /\ pc = "imported"
       => /\ name # "__main__"
          /\ sock = NoSock /\ bindResult = "none"
          /\ \E i, j \in 1..Len(routes) :
                /\ routes[i].path = RootPath /\ routes[i].endpoint = "root"
                /\ routes[j].path = HealthPath /\ routes[j].endpoint = "health_check"

\* An importing process is done loading, after an earlier process that ran
\* the module served a request.
C9_Witness ==
    /\ pc = "imported"
    /\ ref.boot = 1 /\ boots = 2

\* C10: two requests with the same method and path get the same status and
\* body, whatever their query string, header and body and whatever was
\* served before each.
C10_MethodAndPathOnly ==
    \A c \in DOMAIN conn :
        ( /\ Responded(c)
          /\ ref # NoRef
          /\ ref.req.method = conn[c].req.method
          /\ ref.req.path = conn[c].req.path )
        => ref.status = conn[c].resp.status /\ ref.body = conn[c].resp.body

\* Two answered GET /health that differ in the query string, the second
\* after the schema cache was filled.
C10_Witness ==
    \E c \in DOMAIN conn :
        /\ RespondedTo(c, "GET", HealthPath)
        /\ conn[c].req.query = "debug=1"
        /\ ref.req.method = "GET" /\ ref.req.path = HealthPath /\ ref.req.query = ""
        /\ openapi_schema = "built"

====
